---------------------------- MODULE Spec2Model ----------------------------
(***************************************************************************)
(* Model of iso_medical_standard_agent.py: the ISOMedicalStandardAgent     *)
(* (keyword_search, the four-node LangGraph workflow, chat) and the        *)
(* command-line loop of main() that keeps the conversation history.        *)
(*                                                                         *)
(* Python str values are modelled as TLA+ strings; a character of a string *)
(* s is SubSeq(s, i, i).  The characters are those from U+0000 to U+00FF,  *)
(* the ones a TLA+ string can hold.                                        *)
(***************************************************************************)
EXTENDS Integers, Sequences, FiniteSets, TLC

VARIABLES
    pc,                    \* position of main(): "input", a graph node, "END", "exited"
    user_input,            \* main: user_input = input("You: ").strip()
    conversation_history,  \* main: conversation_history (list of {"user","bot"})
    state,                 \* the ISOStandardState threaded through the graph
    trace,                 \* history variable: the node executions of the current chat call
    outcome,               \* what the last loop iteration of main did
    log,                   \* history variable: every exchange main appended, in call order
    keywords,              \* argument of a keyword_search call
    kwPc,                  \* "idle", "call" (called, not run), "done" (returned)
    results                \* return value of keyword_search

vars == <<pc, user_input, conversation_history, state, trace,
          outcome, log, keywords, kwPc, results>>

sessionVars == <<pc, user_input, conversation_history, state, trace,
                 outcome, log>>

searchVars == <<keywords, kwPc, results>>

---------------------------------------------------------------------------
(* Python string primitives                                                *)

\* the characters up to U+00FF that str.lower() changes, and what it makes of them
UpperCase == "ABCDEFGHIJKLMNOPQRSTUVWXYZÀÁÂÃÄÅÆÇÈÉÊËÌÍÎÏÐÑÒÓÔÕÖØÙÚÛÜÝÞ"
LowerCase == "abcdefghijklmnopqrstuvwxyzàáâãäåæçèéêëìíîïðñòóôõöøùúûüýþ"

Char(s, i) == SubSeq(s, i, i)

\* str.lower() on one character (the other characters up to U+00FF are kept)
LowerChar(c) ==
    IF \E n \in 1..Len(UpperCase) : Char(UpperCase, n) = c
    THEN Char(LowerCase, CHOOSE n \in 1..Len(UpperCase) : Char(UpperCase, n) = c)
    ELSE c

\* the upper-case form of a lower-case letter (used to draw keywords only)
UpperChar(c) ==
    IF \E n \in 1..Len(LowerCase) : Char(LowerCase, n) = c
    THEN Char(UpperCase, CHOOSE n \in 1..Len(LowerCase) : Char(LowerCase, n) = c)
    ELSE c

\* str.lower()
RECURSIVE lower(_)
lower(s) ==
    IF Len(s) = 0 THEN ""
    ELSE IF Len(s) = 1 THEN LowerChar(s)
    ELSE LET h == Len(s) \div 2
         IN  lower(SubSeq(s, 1, h)) \o lower(SubSeq(s, h + 1, Len(s)))

\* s with its lower-case letters in upper case (used to draw keywords only)
RECURSIVE upper(_)
upper(s) ==
    IF Len(s) = 0 THEN ""
    ELSE IF Len(s) = 1 THEN UpperChar(s)
    ELSE LET h == Len(s) \div 2
         IN  upper(SubSeq(s, 1, h)) \o upper(SubSeq(s, h + 1, Len(s)))

\* Python's  sub in text  for strings
In(sub, text) ==
    \E i \in 0..(Len(text) - Len(sub)) : SubSeq(text, i + 1, i + Len(sub)) = sub

\* the characters up to U+00FF that str.strip() removes: \t \n \x0b \f \r
\* \x1c \x1d \x1e \x1f space \x85 \xa0
Whitespace == {"\t", "\n", "", "\f", "\r", "", "", "", "", " ", "", " "}

RECURSIVE lstrip(_)
lstrip(s) ==
    IF Len(s) > 0 /\ Char(s, 1) \in Whitespace
    THEN lstrip(SubSeq(s, 2, Len(s)))
    ELSE s

RECURSIVE rstrip(_)
rstrip(s) ==
    IF Len(s) > 0 /\ Char(s, Len(s)) \in Whitespace
    THEN rstrip(SubSeq(s, 1, Len(s) - 1))
    ELSE s

strip_none(s) == s

\* str.strip()
strip(s) == rstrip(lstrip(s))

---------------------------------------------------------------------------
(* keyword_search                                                          *)

iso_standards_db ==
    [ id \in {"ISO 13485", "ISO 14971", "IEC 62304"} |->
      CASE id = "ISO 13485" ->
             [ topic |-> "Quality Management Systems for Medical Devices",
               scope |-> "Requirements for quality management system for medical device organizations",
               product_application |-> "All medical devices and related services",
               publication_date |-> "2016 (current version)",
               description |-> "Specifies requirements for a quality management system where an organization needs to demonstrate its ability to provide medical devices and related services that consistently meet customer and applicable regulatory requirements." ]
        [] id = "ISO 14971" ->
             [ topic |-> "Risk Management for Medical Devices",
               scope |-> "Application of risk management to medical devices",
               product_application |-> "All medical devices throughout their lifecycle",
               publication_date |-> "2019 (current version)",
               description |-> "Specifies a process for a manufacturer to identify the hazards associated with medical devices, to estimate and evaluate the associated risks, to control these risks, and to monitor the effectiveness of the controls." ]
        [] id = "IEC 62304" ->
             [ topic |-> "Medical Device Software - Software Life Cycle Processes",
               scope |-> "Software development life cycle processes for medical device software",
               product_application |-> "Medical device software and software as medical devices",
               publication_date |-> "2006 (current version)",
               description |-> "Defines the life cycle requirements for medical device software. The processes, activities, and tasks described in this standard establish a common framework for medical device software life cycle processes." ] ]

StandardIds == DOMAIN iso_standards_db

\* f"{info['topic']} {info['scope']} {info['product_application']} {info['description']}".lower()
searchable_text(info) ==
    lower(info.topic \o " " \o info.scope \o " " \o info.product_application
          \o " " \o info.description)

\* the searchable text of each record (the loop computes it once per record)
SearchableTexts == [ id \in StandardIds |-> searchable_text(iso_standards_db[id]) ]

keywords_lower_none(kw) == kw

\* keywords_lower = keywords.lower()
keywords_lower(kw) == lower(kw)

\* the loop over iso_standards_db.items(): the mapping id -> info of the matches
keyword_search(kw) ==
    LET matched == { id \in StandardIds : In(keywords_lower(kw), SearchableTexts[id]) }
    IN  [ id \in matched |-> iso_standards_db[id] ]

---------------------------------------------------------------------------
(* The text-completion service (ChatOpenAI.invoke)                         *)

\* response.content values the service may return
LLMContents == {"", " risk "}

\* llm.invoke(messages) either returns a response or raises
LLMOutcomes ==
    [kind : {"content"}, content : LLMContents]
        \cup {[kind |-> "raise", content |-> ""]}

propagates_never(out) == FALSE

\* an exception raised by invoke is not caught in the node, the graph or chat
propagates(out) == out.kind = "raise"

---------------------------------------------------------------------------
(* _build_graph                                                            *)

Nodes == {"analyze_query", "web_search", "extract_standard_info", "format_response"}

\* workflow.set_entry_point("analyze_query")
entry_point == "analyze_query"

edge_reordered(n) ==
    CASE n = "analyze_query"         -> "extract_standard_info"
      [] n = "web_search"            -> "format_response"
      [] n = "extract_standard_info" -> "web_search"
      [] n = "format_response"       -> "END"

\* workflow.add_edge(n, target)
edge(n) ==
    CASE n = "analyze_query"         -> "web_search"
      [] n = "web_search"            -> "extract_standard_info"
      [] n = "extract_standard_info" -> "format_response"
      [] n = "format_response"       -> "END"

---------------------------------------------------------------------------
(* The graph nodes.  Each takes the state and the content the LLM returned *)
(* and gives the state the node returns.  A dict is a function on its keys.*)

\* the prompt of a node: the interpolated parts of its two messages
\* (the fixed instruction text is left out; system is "" when nothing is interpolated)
analyze_messages(st) == [system |-> "", human |-> "Query: " \o st.query]

\* state["standard_info"] = {"analysis": response.content}
analyze_query(st, content) ==
    [st EXCEPT !.standard_info = [k \in {"analysis"} |-> content]]

web_search_messages(st) == [system |-> st.query, human |-> st.query]

\* the f-string of simulated results around search_query
search_results(search_query) ==
    "Search query: " \o search_query
    \o "\n        \n        Recent ISO medical device standards information:"
    \o "\n        - ISO standards are regularly updated and maintained by the International Organization for Standardization"
    \o "\n        - Medical device standards focus on quality management, risk management, and software lifecycle processes"
    \o "\n        - Current versions should be verified through official ISO website or regulatory bodies"
    \o "\n        - Standards may have amendments or technical corrigenda that update requirements"
    \o "\n        \n        Note: For most current information, consult official ISO catalog or regulatory guidance documents."

\* search_query = content.strip(); state["web_search_results"] = search_results
web_search(st, content) ==
    [st EXCEPT !.web_search_results = search_results(strip(content))]

\* web_results = state.get("web_search_results", ""), interpolated in the system prompt
extract_messages(st) ==
    [system |-> st.web_search_results, human |-> "User query: " \o st.query]

extract_overwrite(st, content) ==
    [st EXCEPT !.standard_info = [k \in {"extracted_info"} |-> content]]

\* state["standard_info"]["extracted_info"] = response.content
extract_standard_info(st, content) ==
    [st EXCEPT !.standard_info =
        [k \in (DOMAIN st.standard_info) \cup {"extracted_info"} |->
            IF k = "extracted_info" THEN content ELSE st.standard_info[k]]]

\* state["standard_info"]["extracted_info"] raises KeyError when the key is absent
format_key_error(st) == "extracted_info" \notin DOMAIN st.standard_info

format_messages(st) ==
    [system |-> "",
     human  |-> "Information to format: " \o st.standard_info["extracted_info"]]

\* state["response"] = response.content
format_response(st, content) == [st EXCEPT !.response = content]

node_raises(n, st) == n = "format_response" /\ format_key_error(st)

node_messages(n, st) ==
    CASE n = "analyze_query"         -> analyze_messages(st)
      [] n = "web_search"            -> web_search_messages(st)
      [] n = "extract_standard_info" -> extract_messages(st)
      [] n = "format_response"       -> format_messages(st)

node_apply(n, st, content) ==
    CASE n = "analyze_query"         -> analyze_query(st, content)
      [] n = "web_search"            -> web_search(st, content)
      [] n = "extract_standard_info" -> extract_standard_info(st, content)
      [] n = "format_response"       -> format_response(st, content)

---------------------------------------------------------------------------
(* chat and main                                                           *)

\* no workflow state exists outside a chat call
NoState == [query |-> "", standard_info |-> <<>>, web_search_results |-> "",
            response |-> "", conversation_history |-> <<>>]

initial_state_stale(query, history) ==
    [query |-> query,
     standard_info |-> <<>>,
     web_search_results |-> IF Len(history) > 0 THEN history[Len(history)].bot ELSE "",
     response |-> "",
     conversation_history |-> history]

\* chat: initial_state = {...}
initial_state(query, history) ==
    [query |-> query,
     standard_info |-> <<>>,
     web_search_results |-> "",
     response |-> "",
     conversation_history |-> history]

\* if len(conversation_history) > 5: the number of exchanges kept
HistoryLimit == 5

\* conversation_history[-n:]
LastN(h, n) == IF Len(h) > n THEN SubSeq(h, Len(h) - n + 1, Len(h)) ELSE h

update_history_unbounded(h, query, response) ==
    Append(h, [user |-> query, bot |-> response])

update_history_keep_first(h, query, response) ==
    LET appended == Append(h, [user |-> query, bot |-> response])
    IN  IF Len(appended) > HistoryLimit THEN SubSeq(appended, 1, HistoryLimit) ELSE appended

\* main: append the exchange, then keep only the last 5
update_history(h, query, response) ==
    LET appended == Append(h, [user |-> query, bot |-> response])
    IN  IF Len(appended) > HistoryLimit THEN LastN(appended, HistoryLimit) ELSE appended

history_on_error_append(h, query) == Append(h, [user |-> query, bot |-> ""])

\* main: the except branch only prints; conversation_history is not touched
history_on_error(h, query) == h


\* the lines input() may return
InputLines ==
    {"", " ", " \t ", "", "  ", "ISO 13485", "ISO 13485",
     "  risk management \t", " risk management", "quit", " EXIT", "Bye  "}

\* user_input.lower() in ['quit', 'exit', 'bye']
is_exit_command(text) == lower(text) \in {"quit", "exit", "bye"}

\* input("You: ").strip() for each line, and whether it is an exit command
\* (tabulated once: both depend on the line only)
stripped_line == [line \in InputLines |-> strip(line)]

exit_line == [line \in InputLines |-> is_exit_command(stripped_line[line])]

\* the number of successful exchanges after which no further query is modelled
MaxCalls == 6

NoOutcome == [kind |-> "none", node |-> "", response |-> "", printed |-> ""]

Init ==
    /\ pc = "input"
    /\ user_input = ""
    /\ conversation_history = <<>>
    /\ state = NoState
    /\ trace = <<>>
    /\ outcome = NoOutcome
    /\ log = <<>>
    /\ keywords = ""
    /\ kwPc = "idle"
    /\ results = <<>>

\* one pass of the while loop up to the call of agent.chat
ReadLine(line) ==
    /\ pc = "input"
    /\ user_input' = stripped_line[line]
    /\ IF exit_line[line]
       THEN /\ pc' = "exited"
            /\ UNCHANGED <<state, trace>>
       ELSE IF user_input' = ""
       THEN /\ pc' = "input"
            /\ UNCHANGED <<state, trace>>
       ELSE /\ Len(log) < MaxCalls
            /\ state' = initial_state(user_input', conversation_history)
            /\ trace' = <<>>
            /\ pc' = entry_point
    /\ UNCHANGED <<conversation_history, outcome, log>>
    /\ UNCHANGED searchVars

\* graph.invoke runs node n: build the prompt, call the LLM, store the content.
\* An exception leaves invoke and chat and reaches the except branch of main.
RunNode(n) ==
    /\ pc = n
    /\ \E out \in LLMOutcomes :
         LET raisesFirst == node_raises(n, state)
             entry == [node    |-> n,
                       prompt  |-> IF raisesFirst THEN [system |-> "", human |-> ""]
                                   ELSE node_messages(n, state),
                       kind    |-> IF raisesFirst THEN "raise" ELSE out.kind,
                       content |-> IF raisesFirst THEN "" ELSE out.content]
         IN  /\ trace' = Append(trace, entry)
             /\ IF raisesFirst \/ propagates(out)
                THEN /\ pc' = "input"
                     /\ state' = NoState
                     /\ conversation_history' = history_on_error(conversation_history, user_input)
                     /\ outcome' = [kind |-> "raised", node |-> n, response |-> "",
                                    printed |-> "Error: completion failed"]
                ELSE /\ pc' = edge(n)
                     /\ state' = node_apply(n, state, out.content)
                     /\ UNCHANGED <<conversation_history, outcome>>
    /\ UNCHANGED <<user_input, log>>
    /\ UNCHANGED searchVars

AnalyzeQuery == RunNode("analyze_query")

WebSearch == RunNode("web_search")

ExtractStandardInfo == RunNode("extract_standard_info")

FormatResponse == RunNode("format_response")

\* the graph reached END: chat returns result["response"]; main prints it and
\* updates conversation_history
ChatReturn ==
    /\ pc = "END"
    /\ LET response == state.response
       IN  /\ outcome' = [kind |-> "returned", node |-> "", response |-> response,
                          printed |-> "\nZenTH med_bot: " \o response \o "\n"]
           /\ conversation_history' = update_history(conversation_history, user_input, response)
    /\ log' = Append(log, [user |-> state.query, bot |-> trace[Len(trace)].content])
    /\ state' = NoState
    /\ pc' = "input"
    /\ UNCHANGED <<user_input, trace>>
    /\ UNCHANGED searchVars

Next ==
    \/ \E line \in InputLines : ReadLine(line)
    \/ AnalyzeQuery
    \/ WebSearch
    \/ ExtractStandardInfo
    \/ FormatResponse
    \/ ChatReturn

Spec == Init /\ [][Next]_vars

---------------------------------------------------------------------------
(* Calls of keyword_search on a bounded set of keywords                    *)

\* the longest substring of a field drawn as a keyword
MaxKeywordLen == 4

\* the keys of one record
FieldNames == {"topic", "scope", "product_application", "publication_date", "description"}

\* every field of the record id: its id and the five values of its info
RecordFields(id) == {id} \cup { iso_standards_db[id][f] : f \in FieldNames }

\* the substrings of text of at most MaxKeywordLen characters
Windows(text) ==
    { SubSeq(text, p[1], p[1] + p[2] - 1) :
        p \in { q \in (1..Len(text)) \X (0..MaxKeywordLen) : q[1] + q[2] - 1 <= Len(text) } }

SampleKeywords ==
    {"", "risk", "Risk", "RISK", "software", "Medical Devices", "quality management system",
     "devices requirements", "lifecycle", "life cycle", "hazards", "framework",
     "2016", "2019", "current version", "ISO 13485", "iso", "IEC", "62304",
     "pacemaker", "risk  management", "xyz", " ", "É", "risÉ", "ÞQuality", "×"}

\* the keywords searched for: the samples, the short substrings of every field,
\* and each of them in upper and in lower case
Keywords ==
    LET drawn == SampleKeywords \cup
                 UNION { Windows(t) : t \in UNION { RecordFields(id) : id \in StandardIds } }
    IN  drawn \cup { upper(k) : k \in drawn } \cup { lower(k) : k \in drawn }

InitSearch ==
    /\ pc = "input"
    /\ user_input = ""
    /\ conversation_history = <<>>
    /\ state = NoState
    /\ trace = <<>>
    /\ outcome = NoOutcome
    /\ log = <<>>
    /\ keywords \in Keywords
    /\ kwPc = "call"
    /\ results = <<>>

\* agent.keyword_search(keywords) runs and returns
KeywordSearch ==
    /\ kwPc = "call"
    /\ results' = keyword_search(keywords)
    /\ kwPc' = "done"
    /\ UNCHANGED keywords
    /\ UNCHANGED sessionVars

NextSearch == KeywordSearch

SpecSearch == InitSearch /\ [][NextSearch]_vars

---------------------------------------------------------------------------
(* Properties of keyword_search                                            *)

\* the pairs of an upper-case letter and its lower-case form
CasePairs ==
    { <<Char(UpperCase, n), Char(LowerCase, n)>> : n \in 1..Len(UpperCase) }

\* two characters are equal up to case
SameCharCI(c, d) == c = d \/ <<c, d>> \in CasePairs \/ <<d, c>> \in CasePairs

\* sub occurs in text at some position, comparing characters up to case
ContainsCI(text, sub) ==
    \E i \in 0..(Len(text) - Len(sub)) :
        \A j \in 1..Len(sub) : SameCharCI(Char(text, i + j), Char(sub, j))

\* the concatenated text of a record: topic, scope, product application and
\* description, separated by single spaces
RecordText(id) ==
    LET info == iso_standards_db[id]
    IN  info["topic"] \o " " \o info["scope"] \o " " \o info["product_application"]
        \o " " \o info["description"]

RecordTexts == [ id \in StandardIds |-> RecordText(id) ]

\* C8 (as claimed): a keyword that is a case-insensitive substring of ANY field of
\* a record (its id, topic, scope, product application, publication date or
\* description) is answered with a mapping that contains the record's id.
C8_AnyFieldMatches ==
    kwPc = "done" =>
        \A id \in StandardIds :
            (\E t \in RecordFields(id) : ContainsCI(t, keywords)) => id \in DOMAIN results

\* C9: keyword_search returns exactly the records whose concatenated text contains
\* the keyword case-insensitively, each with its own info and nothing else; a
\* keyword in no record's text gives the empty mapping and the empty keyword
\* gives all three records.
C9_ExactMatches ==
    kwPc = "done" =>
        /\ DOMAIN results = { id \in StandardIds : ContainsCI(RecordTexts[id], keywords) }
        /\ \A id \in DOMAIN results : results[id] = iso_standards_db[id]
        /\ (\A id \in StandardIds : ~ContainsCI(RecordTexts[id], keywords)) => results = <<>>
        /\ keywords = "" => (DOMAIN results = StandardIds /\ Cardinality(StandardIds) = 3)

\* C9 witness: an upper-case keyword that matches exactly one record was searched
C9_Witness ==
    /\ kwPc = "done"
    /\ keywords = "RISK"
    /\ DOMAIN results = {"ISO 14971"}

---------------------------------------------------------------------------
(* Properties of the session: main, chat and the workflow                  *)

\* the order of the stages
StageOrder == <<"analyze_query", "web_search", "extract_standard_info", "format_response">>

\* a workflow run is in progress (a node is next, or the graph has reached END)
Running == pc \in Nodes \cup {"END"}

Min(a, b) == IF a < b THEN a ELSE b

\* every character of s is whitespace (the empty string included)
IsBlank(s) == \A i \in 1..Len(s) : Char(s, i) \in Whitespace

\* C1: the conversation history never holds more than 5 exchanges, whatever
\* mix of successful and failed queries came before; and whenever a full
\* (5-entry) history changes, its oldest entry is gone, the other four have
\* moved up by one and the new exchange is last.
C1_HistoryBounded ==
    /\ [](Len(conversation_history) <= HistoryLimit)
    /\ [][ (Len(conversation_history) = HistoryLimit
                /\ conversation_history' # conversation_history)
           => /\ Len(conversation_history') = HistoryLimit
              /\ \A i \in 1..(HistoryLimit - 1) :
                     conversation_history'[i] = conversation_history[i + 1]
              /\ conversation_history'[HistoryLimit] =
                     [user |-> state.query, bot |-> state.response] ]_vars

\* C1 witness: a sixth exchange was appended and the first one was dropped
C1_Witness ==
    /\ Len(log) = HistoryLimit + 1
    /\ Len(conversation_history) = HistoryLimit
    /\ conversation_history[1] = log[2]
    /\ conversation_history[1] # log[1]

\* C2: after n successful calls the history is exactly the last min(n, 5)
\* exchanges in call order, each being the query chat was called with and the
\* response the format stage produced for it.
C2_LastFiveInOrder ==
    LET n == Len(log)
        m == Min(n, HistoryLimit)
    IN  /\ Len(conversation_history) = m
        /\ \A i \in 1..m : conversation_history[i] = log[n - m + i]

\* C2 witness: six successful calls, with distinct neighbouring exchanges, left
\* exchanges 2 to 6
C2_Witness ==
    /\ pc = "input"
    /\ Len(log) = 6
    /\ conversation_history = <<log[2], log[3], log[4], log[5], log[6]>>
    /\ log[1].user # log[2].user
    /\ log[5].bot # log[6].bot

\* C3: a step in which the completion service raises, at whichever of the four
\* stages, leaves the conversation history as it was, reports the failure to the
\* caller (chat raises, main prints the error) and returns to the prompt.
C3_FailureKeepsHistory ==
    [][ (pc \in Nodes /\ Len(trace') = Len(trace) + 1
            /\ trace'[Len(trace')].kind = "raise")
        => /\ conversation_history' = conversation_history
           /\ log' = log
           /\ outcome'.kind = "raised"
           /\ outcome'.node = pc
           /\ pc' = "input" ]_vars

\* C3 witness: the service failed at stage 2 of a call made with a non-empty history
C3_Witness ==
    /\ pc = "input"
    /\ outcome.kind = "raised"
    /\ outcome.node = "web_search"
    /\ Len(trace) = 2
    /\ trace[2].kind = "raise"
    /\ Len(conversation_history) = 2

\* C4 (as claimed): when the completion service fails at a stage, by raising or by
\* returning empty text, that stage is the last one run for the query, the
\* failure is surfaced to the caller of chat and no response is returned.
C4_EmptyTextAborts ==
    \A i \in 1..Len(trace) :
        (trace[i].kind = "raise" \/ trace[i].content = "")
        => /\ i = Len(trace)
           /\ pc \in {"input", "exited"}
           /\ outcome.kind = "raised"
           /\ outcome.node = trace[i].node

\* C4 (amended): when the completion service raises at a stage, that stage is the
\* last one run for the query, the failure is surfaced to the caller of chat and
\* no response is returned; and a call fails only in this way (empty text is
\* not a failure).
C4_RaiseAborts ==
    /\ \A i \in 1..Len(trace) :
         trace[i].kind = "raise"
         => /\ i = Len(trace)
            /\ pc \in {"input", "exited"}
            /\ outcome.kind = "raised"
            /\ outcome.node = trace[i].node
            /\ outcome.response = ""
    /\ (pc \in {"input", "exited"} /\ outcome.kind = "raised")
         => Len(trace) > 0 /\ trace[Len(trace)].kind = "raise"

\* C4 witness: the service raised at stage 3 after two stages had completed
C4_Witness ==
    /\ Len(trace) = 3
    /\ trace[3].kind = "raise"
    /\ trace[3].node = "extract_standard_info"
    /\ outcome.kind = "raised"

\* C5: the nodes run for a query are a prefix of analyze, search, extract,
\* format, each at most once; the node about to run is the one after the last
\* completed; and the graph reaches END only after all four, format last.
C5_StageOrder ==
    /\ Len(trace) <= Len(StageOrder)
    /\ \A i \in 1..Len(trace) : trace[i].node = StageOrder[i]
    /\ pc \in Nodes =>
         /\ Len(trace) < Len(StageOrder)
         /\ pc = StageOrder[Len(trace) + 1]
         /\ \A i \in 1..Len(trace) : trace[i].kind = "content"
    /\ pc = "END" =>
         /\ Len(trace) = Len(StageOrder)
         /\ \A i \in 1..Len(trace) : trace[i].kind = "content"

\* C5 witness: a run reached END
C5_Witness ==
    /\ pc = "END"
    /\ [i \in 1..Len(trace) |-> trace[i].node] = StageOrder

\* C6: every run starts from a state that holds the call's query and nothing
\* else from before (empty standard_info, web_search_results and response), and
\* the extract stage is prompted with the search results made by the search
\* stage of the same call.
C6_FreshState ==
    /\ (pc = entry_point /\ trace = <<>>) =>
         state = [query |-> user_input,
                  standard_info |-> <<>>,
                  web_search_results |-> "",
                  response |-> "",
                  conversation_history |-> conversation_history]
    /\ Running => state.query = user_input
    /\ \A i \in 1..Len(trace) :
         (trace[i].node = "extract_standard_info" /\ trace[i].kind = "content")
         => /\ i > 1
            /\ trace[i - 1].node = "web_search"
            /\ trace[i - 1].kind = "content"
            /\ trace[i].prompt.system = search_results(strip(trace[i - 1].content))

\* C6 witness: in a call that follows a failed call and a successful call, the
\* extract stage has run on a non-empty search query
C6_Witness ==
    /\ pc = "format_response"
    /\ outcome.kind = "raised"
    /\ Len(log) > 0
    /\ trace[2].content = " risk "
    /\ trace[3].prompt.system = search_results("risk")

\* C7: during a run with k completed stages, analysis is set iff k >= 1,
\* web_search_results iff k >= 2, extracted_info iff k >= 3 and response iff
\* k = 4, each holding what its own stage produced; every stage was prompted
\* with fields set by earlier stages of the run; query is the call's query.
C7_FieldsInStageOrder ==
    Running =>
      LET k == Len(trace)
          si == state.standard_info
      IN  /\ state.query = user_input
          /\ DOMAIN si = (IF k >= 1 THEN {"analysis"} ELSE {})
                            \cup (IF k >= 3 THEN {"extracted_info"} ELSE {})
          /\ k >= 1 => si["analysis"] = trace[1].content
          /\ state.web_search_results =
                IF k >= 2 THEN search_results(strip(trace[2].content)) ELSE ""
          /\ k >= 3 => si["extracted_info"] = trace[3].content
          /\ state.response = IF k >= 4 THEN trace[4].content ELSE ""
          /\ k >= 1 => trace[1].prompt = [system |-> "", human |-> "Query: " \o user_input]
          /\ k >= 2 => trace[2].prompt = [system |-> user_input, human |-> user_input]
          /\ k >= 3 => trace[3].prompt =
                          [system |-> search_results(strip(trace[2].content)),
                           human  |-> "User query: " \o user_input]
          /\ k >= 4 => trace[4].prompt =
                          [system |-> "",
                           human  |-> "Information to format: " \o trace[3].content]

\* C7 witness: a run finished with all four fields set to non-empty text
C7_Witness ==
    /\ pc = "END"
    /\ state.standard_info["analysis"] # ""
    /\ state.standard_info["extracted_info"] # ""
    /\ state.response # ""
    /\ state.query = "risk management"

\* C10: no run is ever in progress on a blank query, and reading a blank line
\* from the prompt starts no run and changes neither the history nor the
\* record of the last call.
C10_NoBlankQuery ==
    /\ [](Running => ~IsBlank(state.query))
    /\ [][ (pc = "input" /\ user_input' # user_input /\ IsBlank(user_input'))
           => /\ pc' = "input"
              /\ UNCHANGED <<conversation_history, state, trace, outcome, log>> ]_vars

\* C10 witness: a whitespace-only line was read after a successful call
C10_Witness ==
    /\ pc = "input"
    /\ user_input = ""
    /\ Len(log) = 1
    /\ Len(conversation_history) = 1

=============================================================================
